---- MODULE Spec2Model ----
(***************************************************************************)
(* worldping-gw: the request pipeline of the gateway.                      *)
(*                                                                         *)
(*   Tracer -> RequestStats -> GetContextHandler -> Api.Auth -> route      *)
(*   (Metrics | ElasticsearchProxy) -> RequestStats (exit) -> Tracer (exit)*)
(*                                                                         *)
(* One request is followed from arrival to completion.  Header values and  *)
(* the body are the inputs; the auth plugin, the schema library, the       *)
(* publisher and the search proxy are the environment.                     *)
(* Strings that the code parses are sequences of tokens or characters, so  *)
(* that the parsing is computed and not assumed.                           *)
(***************************************************************************)
EXTENDS Integers, Sequences, FiniteSets, TLC

\* ------------------------------------------------------------------ bounds
MaxBatch == 2
MaxHdrLen == 2
MaxPath == 4
NumProcs == 2

\* ------------------------------------------------------------ small helpers
SeqsUpTo(S, n) == UNION { [1..k -> S] : k \in 0..n }

\* strings.Index on a token sequence: position of the first sep, 0 when absent
IndexOf(s, sep) ==
    IF \E i \in 1..Len(s) : s[i] = sep
    THEN CHOOSE i \in 1..Len(s) : s[i] = sep /\ \A j \in 1..(i - 1) : s[j] # sep
    ELSE 0

\* strings.SplitN(s, sep, 2)
SplitN2(s, sep) ==
    LET i == IndexOf(s, sep)
    IN  IF i = 0 THEN <<s>>
        ELSE <<SubSeq(s, 1, i - 1), SubSeq(s, i + 1, Len(s))>>

\* base64.StdEncoding.DecodeString on the payloads the model sends: the
\* well-formed encodings with their decoded text; anything else is an error.
Base64Table ==
    [ b \in {"YXBpX2tleTprMQ==", "YXBpX2tleQ==", "Ym9iOmsx", "YXBpX2tleTo="} |->
        CASE b = "YXBpX2tleTprMQ==" -> <<"api_key", ":", "k1">>
          [] b = "YXBpX2tleQ=="     -> <<"api_key">>
          [] b = "Ym9iOmsx"         -> <<"bob", ":", "k1">>
          [] b = "YXBpX2tleTo="     -> <<"api_key", ":">> ]

Base64Decode(p) ==
    IF Len(p) = 1 /\ p[1] \in DOMAIN Base64Table
    THEN [err |-> FALSE, text |-> Base64Table[p[1]]]
    ELSE [err |-> TRUE, text |-> <<>>]

\* ------------------------------------------------------------------ inputs
\* Authorization header values (<<>> is the absent header)
AuthHeaders ==
    { <<>>,
      <<"Bearer">>,
      <<"Bearer", " ">>,
      <<"Bearer", " ", "k1">>,
      <<"Digest", " ", "k1">>,
      <<"Basic", " ", "%%%">>,
      <<"Basic", " ", "Ym9iOmsx">>,
      <<"Basic", " ", "YXBpX2tleQ==">>,
      <<"Basic", " ", "YXBpX2tleTo=">>,
      <<"Basic", " ", "YXBpX2tleTprMQ==">> }

\* X-Tsdb-Org header values, character by character (<<>> is the absent header)
OrgChars == {"-", "0", "3"}
OrgHeaders == SeqsUpTo(OrgChars, MaxHdrLen)

\* identities the auth plugin can resolve a key to
Users == { [OrgId |-> 1, IsAdmin |-> TRUE], [OrgId |-> 7, IsAdmin |-> FALSE] }
\* &auth.User{}
EmptyUser == [OrgId |-> 0, IsAdmin |-> FALSE]

AuthErrors == {"ErrInvalidKey", "ErrInvalidOrgId", "ErrOther"}
\* what authPlugin.Auth(key) can return
AuthOutcomes ==
    { [err |-> "nil", user |-> u] : u \in Users } \cup
    { [err |-> e, user |-> EmptyUser] : e \in AuthErrors }
NoOutcome == [err |-> "none", user |-> EmptyUser]

\* -------------------------------------------------------------- getApiKey
getApiKey(header) ==
    LET parts == SplitN2(header, " ")
    IN  IF Len(parts) = 2 /\ parts[1] = <<"Bearer">>
        THEN [key |-> parts[2], err |-> FALSE, panic |-> FALSE]
        ELSE IF Len(parts) = 2 /\ parts[1] = <<"Basic">>
        THEN LET d == Base64Decode(parts[2])
                 userAndPass == SplitN2(d.text, ":")
             IN  IF d.err
                 THEN [key |-> <<>>, err |-> TRUE, panic |-> FALSE]
                 ELSE IF userAndPass[1] = <<"api_key">>
                 THEN IF Len(userAndPass) < 2
                      \* userAndPass[1] of a one-element slice: index out of range
                      THEN [key |-> <<>>, err |-> FALSE, panic |-> TRUE]
                      ELSE [key |-> userAndPass[2], err |-> FALSE, panic |-> FALSE]
                 ELSE [key |-> <<>>, err |-> FALSE, panic |-> FALSE]
        ELSE [key |-> <<>>, err |-> FALSE, panic |-> FALSE]

\* -------------------------------------------------------- strconv.ParseInt
DigitVal(c) == CASE c = "0" -> 0 [] c = "1" -> 1 [] c = "2" -> 2 [] c = "3" -> 3
                 [] c = "4" -> 4 [] c = "5" -> 5 [] c = "6" -> 6 [] c = "7" -> 7
                 [] c = "8" -> 8 [] c = "9" -> 9
DigitChars == {"0", "1", "2", "3", "4", "5", "6", "7", "8", "9"}

RECURSIVE ParseUint(_)
ParseUint(s) ==
    IF s = <<>> THEN 0
    ELSE 10 * ParseUint(SubSeq(s, 1, Len(s) - 1)) + DigitVal(s[Len(s)])

\* strconv.ParseInt(s, 10, 64); the headers of the model are far too short
\* to leave the 64-bit range.
ParseInt(s) ==
    LET signed == s # <<>> /\ s[1] \in {"+", "-"}
        digits == IF signed THEN Tail(s) ELSE s
    IN  IF digits = <<>> \/ \E i \in 1..Len(digits) : digits[i] \notin DigitChars
        THEN [err |-> TRUE, val |-> 0]
        ELSE [err |-> FALSE,
              val |-> IF s[1] = "-" THEN 0 - ParseUint(digits) ELSE ParseUint(digits)]

\* Impersonate without the user.IsAdmin test
ImpersonateAnyone(u, header) ==
    IF header # <<>>
    THEN LET p == ParseInt(header)
         IN  IF ~p.err /\ p.val # 0 THEN [u EXCEPT !.OrgId = p.val] ELSE u
    ELSE u

\* Api.Auth, lines 80-89: the identity stored on the context
Impersonate(u, header) ==
    IF u.IsAdmin /\ header # <<>>
    THEN LET p == ParseInt(header)
         IN  IF ~p.err /\ p.val # 0 THEN [u EXCEPT !.OrgId = p.val] ELSE u
    ELSE u

\* ------------------------------------------------------- schema.MetricData
\* *schema.MetricData as the gateway touches it; nil is the nil pointer that a
\* JSON null or a msgpack nil element decodes to.
MetricData(o, n, t, tags) ==
    [nil |-> FALSE, Name |-> n, Metric |-> "", Mtype |-> t, OrgId |-> o,
     Tags |-> tags, Id |-> <<>>]
NilMetric ==
    [nil |-> TRUE, Name |-> "", Metric |-> "", Mtype |-> "", OrgId |-> 0,
     Tags |-> <<>>, Id |-> <<>>]

SubmittedMetrics ==
    { MetricData(-1, "x", "", <<"t">>),
      MetricData(9, "x", "rate", <<>>),
      MetricData(0, "x", "", <<>>),
      MetricData(-1, "", "rate", <<>>),
      NilMetric }
Batches == SeqsUpTo(SubmittedMetrics, MaxBatch)

ValidMtypes == {"gauge", "rate", "count", "counter", "timestamp"}
WellFormedTags == {"k=v"}

\* m.Validate(): "nil" or the reason (the schema library's checks on the
\* fields the gateway sets)
Validate(m) ==
    IF m.OrgId = 0 THEN "errInvalidOrgIdzero"
    ELSE IF m.Name = "" THEN "errInvalidEmptyName"
    ELSE IF m.Metric = "" THEN "errInvalidEmptyMetric"
    ELSE IF m.Mtype \notin ValidMtypes THEN "errInvalidMtype"
    ELSE IF \E i \in 1..Len(m.Tags) : m.Tags[i] \notin WellFormedTags
    THEN "errInvalidTagFormat"
    ELSE "nil"

\* m.SetId(): the id is the org id and a digest of the other identifying
\* fields; the digest is kept as the tuple it is computed from.
SetId(m) == [m EXCEPT !.Id = <<m.OrgId, m.Metric, m.Mtype, m.Tags>>]

\* Normalize without "m.OrgId = ctx.OrgId" in the tenant loop
NormalizeKeepOrg(m, u) ==
    [m EXCEPT !.Metric = m.Name,
              !.Mtype = IF m.Mtype = "" THEN "gauge" ELSE m.Mtype,
              !.Tags = <<>>]

\* the assignments at the head of the loop body, before Validate
Normalize(m, u) ==
    [m EXCEPT !.OrgId = IF u.IsAdmin THEN m.OrgId ELSE u.OrgId,
              !.Metric = m.Name,
              !.Mtype = IF m.Mtype = "" THEN "gauge" ELSE m.Mtype,
              !.Tags = <<>>]

\* a duplication that appends the public copy twice
AppendPublicTwice(ms, i, pub) ==
    LET m == ms[i]
        public == SetId(m)
    IN  Append(Append([ms EXCEPT ![i] = [m EXCEPT !.OrgId = pub]], public), public)

\* the public copy: public := *m; m.OrgId = *publicOrgId; public.SetId();
\* append(metrics, &public).  ms[i] is m after m.SetId().
AppendPublic(ms, i, pub) ==
    LET m == ms[i]
        public == SetId(m)
    IN  Append([ms EXCEPT ![i] = [m EXCEPT !.OrgId = pub]], public)

\* one iteration of "for _, m := range metrics" on element i
LoopBody(ms, i, u, pub) ==
    LET m == ms[i]
        n == Normalize(m, u)
        e == Validate(n)
        s == SetId(n)
        set == [ms EXCEPT ![i] = s]
    IN  IF m.nil
        THEN [panic |-> TRUE, err |-> "nil", metrics |-> ms]
        ELSE IF e # "nil"
        THEN [panic |-> FALSE, err |-> e, metrics |-> [ms EXCEPT ![i] = n]]
        ELSE IF u.IsAdmin /\ s.OrgId = -1 /\ pub # -1
        THEN [panic |-> FALSE, err |-> "nil", metrics |-> AppendPublic(set, i, pub)]
        ELSE [panic |-> FALSE, err |-> "nil", metrics |-> set]

\* ------------------------------------------------------------ request body
\* The bytes of a body, by what the decoders make of them: nothing at all,
\* bytes no decoder accepts, a JSON array of records, a msgpack envelope with
\* its record batch, an envelope whose payload is malformed, or the snappy
\* stream of an envelope.
Content(k, b) == [kind |-> k, batch |-> b]
Contents ==
    { Content(k, <<>>) : k \in {"empty", "garbage", "msgbad"} } \cup
    { Content(k, b) : k \in {"json", "msg", "snappy"}, b \in Batches }
\* how reading the stream ends: at EOF, with an I/O error in the middle of
\* the document, or with an I/O error after the whole document was delivered
ReadEnds == {"eof", "early", "late"}
Bodies == [content : Contents, end : ReadEnds]
NoBody == [content |-> Content("none", <<>>), end |-> "eof"]
NoData == Content("none", <<>>)

ContentTypes == {"application/json", "rt-metric-binary", "rt-metric-binary-snappy", "text/plain"}

\* snappy.NewReader(r): the decompressed stream
Decompress(c) ==
    IF c.kind = "snappy" THEN [err |-> FALSE, data |-> Content("msg", c.batch)]
    ELSE IF c.kind = "empty" THEN [err |-> FALSE, data |-> c]
    ELSE [err |-> TRUE, data |-> Content("empty", <<>>)]

\* ioutil.ReadAll(body): the bytes read before the stream ended, and the error
ReadAll(b, compressed) ==
    LET raw == IF b.end = "early" /\ b.content.kind # "empty"
               THEN Content("garbage", <<>>) ELSE b.content
        d == Decompress(raw)
    IN  IF compressed
        THEN [data |-> d.data, err |-> d.err \/ b.end # "eof"]
        ELSE [data |-> raw, err |-> b.end # "eof"]

\* json.Unmarshal(body, &metrics)
JsonUnmarshal(d) ==
    IF d.kind = "json" THEN [err |-> FALSE, metrics |-> d.batch]
    ELSE [err |-> TRUE, metrics |-> <<>>]

\* metricData.InitFromMsg(body) then metricData.DecodeMetricData()
InitFromMsg(d) == [err |-> d.kind \notin {"msg", "msgbad"}]
DecodeMetricData(d) ==
    IF d.kind = "msg" THEN [err |-> FALSE, metrics |-> d.batch]
    ELSE [err |-> TRUE, metrics |-> <<>>]

\* --------------------------------------------------------------- the clock
\* a civil date, and the day after and before it
Date(y, m, d) == [y |-> y, m |-> m, d |-> d]
NoDate == Date(0, 0, 0)
IsLeap(y) == (y % 4 = 0 /\ y % 100 # 0) \/ y % 400 = 0
DaysIn(y, m) ==
    IF m = 2 THEN (IF IsLeap(y) THEN 29 ELSE 28)
    ELSE IF m \in {4, 6, 9, 11} THEN 30 ELSE 31
NextDay(t) ==
    IF t.d < DaysIn(t.y, t.m) THEN Date(t.y, t.m, t.d + 1)
    ELSE IF t.m < 12 THEN Date(t.y, t.m + 1, 1)
    ELSE Date(t.y + 1, 1, 1)
PrevDay(t) ==
    IF t.d > 1 THEN Date(t.y, t.m, t.d - 1)
    ELSE IF t.m > 1 THEN Date(t.y, t.m - 1, DaysIn(t.y, t.m - 1))
    ELSE Date(t.y - 1, 12, 31)

\* an instant, by its UTC date and hour; time.Local, by its offset from UTC
\* in hours
UtcDates == {Date(2024, 2, 29), Date(2024, 12, 31)}
Hours == {0, 23}
Instants == [date : UtcDates, hour : Hours]
NoInstant == [date |-> NoDate, hour |-> 0]
Zones == {-1, 0, 1}

\* Time.Date() of instant t in the location with offset off
DateIn(t, off) ==
    LET h == t.hour + off
    IN  IF h < 0 THEN PrevDay(t.date)
        ELSE IF h > 23 THEN NextDay(t.date)
        ELSE t.date
\* time.Now().Date(): time.Now() carries time.Local
NowDate(t, local) == DateIn(t, local)

\* fmt's %d and %02d of a non-negative integer, as a sequence of digits
Digit(n) == <<"0", "1", "2", "3", "4", "5", "6", "7", "8", "9">>[n + 1]
RECURSIVE Itoa(_)
Itoa(n) == IF n < 10 THEN <<Digit(n)>>
           ELSE Append(Itoa(n \div 10), Digit(n % 10))
Pad2(n) == IF n < 10 THEN <<"0">> \o Itoa(n) ELSE Itoa(n)

\* ----------------------------------------------------- search proxy inputs
IndexName == "idx"
\* idxDate := fmt.Sprintf("%s-%d-%02d-%02d", elasticsearch.IndexName, y, m, d)
IdxDate(t) ==
    <<IndexName, "-">> \o Itoa(t.y) \o <<"-">> \o Pad2(t.m) \o <<"-">> \o Pad2(t.d)
\* idxDate+"/_stats"
StatsPath(t) == IdxDate(t) \o <<"/", "_stats">>
Methods == {"GET", "POST"}
\* the dates a request may name: the UTC date of an instant and its neighbours
Dates == UtcDates \cup { NextDay(t) : t \in UtcDates } \cup { PrevDay(t) : t \in UtcDates }
\* the stats path of 1 March 2024 written without zero padding
Unpadded == <<IndexName, "-", "2", "0", "2", "4", "-", "3", "-", "1", "/", "_stats">>
ProxyPaths ==
    { <<"_msearch">>, <<"_search">>, Unpadded } \cup { StatsPath(t) : t \in Dates }
Routes == {"metrics", "elasticsearch"}

\* ---------------------------------------------------------------- pathSlug
\* A path is a sequence of tokens: "/", "." and tokens that hold neither.
\* the elements of p between its "/" tokens (strings.Split(p, "/"))
RECURSIVE Elements(_)
Elements(p) ==
    LET i == IndexOf(p, "/")
    IN  IF i = 0 THEN <<p>>
        ELSE <<SubSeq(p, 1, i - 1)>> \o Elements(SubSeq(p, i + 1, Len(p)))

\* the elements joined by "/"
RECURSIVE Join(_)
Join(es) ==
    IF es = <<>> THEN <<>>
    ELSE IF Len(es) = 1 THEN es[1]
    ELSE es[1] \o <<"/">> \o Join(Tail(es))

DotDot == <<".", ".">>
\* path.Clean's pass over the elements: empty and "." elements are dropped,
\* ".." removes the element before it when there is one to remove, is dropped
\* at the root of a rooted path and kept at the start of a relative one
RECURSIVE CleanElements(_, _, _)
CleanElements(es, rooted, out) ==
    IF es = <<>> THEN out
    ELSE LET e == Head(es)
             rest == Tail(es)
         IN  IF e = <<>> \/ e = <<".">>
             THEN CleanElements(rest, rooted, out)
             ELSE IF e = DotDot
             THEN IF out # <<>> /\ out[Len(out)] # DotDot
                  THEN CleanElements(rest, rooted, SubSeq(out, 1, Len(out) - 1))
                  ELSE IF ~rooted
                  THEN CleanElements(rest, rooted, Append(out, e))
                  ELSE CleanElements(rest, rooted, out)
             ELSE CleanElements(rest, rooted, Append(out, e))

\* path.Clean(p)
Clean(p) ==
    IF p = <<>> THEN <<".">>
    ELSE LET rooted == p[1] = "/"
             out == CleanElements(Elements(p), rooted, <<>>)
         IN  IF rooted THEN <<"/">> \o Join(out)
             ELSE IF out = <<>> THEN <<".">>
             ELSE Join(out)

\* strings.TrimPrefix(s, "/")
TrimPrefix(s) == IF s # <<>> /\ s[1] = "/" THEN Tail(s) ELSE s
\* strings.Replace(s, old, new, -1) for a one-character old
Replace(s, old, new) == [i \in 1..Len(s) |-> IF s[i] = old THEN new ELSE s[i]]

\* pathSlug without the "root" default
pathSlugNoRoot(p) ==
    Replace(Replace(TrimPrefix(Clean(p)), "/", "_"), ".", "_")

pathSlug(p) ==
    LET trimmed == TrimPrefix(Clean(p))
        slug == IF trimmed = <<>> THEN <<"root">> ELSE trimmed
    IN  Replace(Replace(slug, "/", "_"), ".", "_")

\* the paths pathSlug is applied to: every string of at most MaxPath
\* characters over two letters, "/" and ".", and "/a/b.c"
PathChars == {"a", "b", "/", "."}
Example == <<"/", "a", "/", "b", ".", "c">>
SlugPaths == SeqsUpTo(PathChars, MaxPath) \cup {Example}

\* ------------------------------------------------------------------- state
VARIABLES
    pc,               \* where the request is in the handler chain
    publicOrgId,      \* the -public-org flag
    route,            \* the route the request matched
    authorization,    \* Authorization header
    tsdbOrg,          \* X-Tsdb-Org header
    outcome,          \* what authPlugin.Auth returned for this request
    authCalls,        \* calls of authPlugin.Auth made for this request
    user,             \* ctx.User
    contentType,      \* Content-Type header
    body,             \* the request body stream
    data,             \* the bytes ReadAll returned
    decoderCalls,     \* calls of json.Unmarshal / InitFromMsg / DecodeMetricData
    metrics,          \* the slice the handler works on
    submitted,        \* the slice as decoded
    rangeLen,         \* length of the slice the range statement iterates
    idx,              \* next element of the range
    status,           \* response status (0: nothing written)
    respBody,         \* response body
    writes,           \* the Write calls forwarded to the wrapped ResponseWriter
    errBody,          \* TracingResponseWriter.errBody
    published,        \* calls of metric_publish.Publish: the batch, the result
    proxied,          \* org ids handed to elasticsearch.Proxy
    metricsValid,     \* metrics.http.valid
    metricsRejected,  \* metrics.http.rejected
    method,           \* request method (search proxy route)
    proxyPath,        \* c.Params("*")
    now,              \* the instant time.Now() returns
    local,            \* time.Local
    today,            \* y, m, d of time.Now().Date()
    span,             \* the request's span
    spanTags,         \* the tags and log fields set on the span
    responseCounts,   \* requestStats.responseCounts: path -> status -> counter
    latencyHistograms,\* requestStats.latencyHistograms: path -> histogram
    sizeMeters,       \* requestStats.sizeMeters: path -> meter
    objects,          \* the counters, histograms and meters created, in order
    mutex,            \* requestStats.Mutex: 0 when free, else the holder
    procs,            \* the requests running RequestStats after ctx.Next()
    urlPath,          \* a path handed to pathSlug
    slug,             \* pathSlug(urlPath)
    reslug,           \* pathSlug(slug)
    slugStep,         \* applications of pathSlug made so far
    trace,            \* the steps taken for this request, in order
    failed            \* the steps of this request that failed

inVars   == <<route, authorization, tsdbOrg>>
authVars == <<outcome, authCalls, user>>
bodyVars == <<contentType, body, data, decoderCalls>>
loopVars == <<metrics, submitted, rangeLen, idx>>
respVars == <<status, respBody, writes, errBody>>
downVars == <<published, proxied>>
ctrVars  == <<metricsValid, metricsRejected>>
esVars   == <<method, proxyPath, now, local, today>>
statVars == <<responseCounts, latencyHistograms, sizeMeters, objects>>
spanVars == <<span, spanTags>>
obsVars  == <<spanVars, statVars>>
concVars == <<mutex, procs>>
slugVars == <<urlPath, slug, reslug, slugStep>>
auxVars  == <<slugVars, concVars>>
vars == <<pc, publicOrgId, inVars, authVars, bodyVars, loopVars, respVars,
          downVars, ctrVars, esVars, obsVars, auxVars, trace, failed>>

PublicOrgIds == {-1, 5}

\* the span before Tracer has set anything after macCtx.Next()
NoTags == [code |-> 0, size |-> -1, logged |-> FALSE, log |-> <<>>, error |-> FALSE]

\* the request's variables before the request arrives
Idle ==
    /\ pc = "idle"
    /\ route = "" /\ authorization = <<>> /\ tsdbOrg = <<>>
    /\ outcome = NoOutcome /\ authCalls = 0 /\ user = EmptyUser
    /\ contentType = "" /\ body = NoBody /\ data = NoData /\ decoderCalls = 0
    /\ metrics = <<>> /\ submitted = <<>> /\ rangeLen = 0 /\ idx = 0
    /\ status = 0 /\ respBody = "" /\ writes = <<>> /\ errBody = <<>>
    /\ published = <<>> /\ proxied = <<>>
    /\ metricsValid = 0 /\ metricsRejected = 0
    /\ method = "" /\ proxyPath = <<>>
    /\ now = NoInstant /\ local = 0 /\ today = NoDate
    /\ span = "none" /\ spanTags = NoTags
    /\ trace = <<>> /\ failed = {}

\* no path is being slugged
NoSlug == urlPath = <<>> /\ slug = <<>> /\ reslug = <<>> /\ slugStep = 0

\* RequestStats(): the three maps are made empty; no request is recording
NoStats ==
    /\ responseCounts = <<>> /\ latencyHistograms = <<>> /\ sizeMeters = <<>>
    /\ objects = <<>>
    /\ mutex = 0 /\ procs = <<>>

Init ==
    /\ publicOrgId \in PublicOrgIds
    /\ Idle
    /\ NoStats
    /\ NoSlug

\* The handlers of a route, in the order they are registered: the two
\* wrapping middlewares, the context builder, authentication, the route
\* handler.  After(h) is the handler macaron runs when h returns without
\* having written a response.
Chain == <<"tracer", "stats", "context", "auth", "route">>
After(h) == Chain[(CHOOSE i \in 1..Len(Chain) : Chain[i] = h) + 1]

\* A body is a sequence of tokens, a Write call carries a chunk of it.
\* TracingResponseWriter.Write(b) when Status() is code: errBody after the
\* call (the chunk is forwarded whatever the status)
Write(code, b, eb) == IF code >= 400 THEN b ELSE eb

\* the Write calls of a response written in chunks, one after the other
RECURSIVE WriteAll(_, _, _)
WriteAll(code, chunks, eb) ==
    IF chunks = <<>> THEN eb
    ELSE WriteAll(code, Tail(chunks), Write(code, Head(chunks), eb))

\* the bytes of the chunks, in order
RECURSIVE Flatten(_)
Flatten(chunks) ==
    IF chunks = <<>> THEN <<>> ELSE Head(chunks) \o Flatten(Tail(chunks))

\* ctx.JSON(code, v): the response is written; macaron runs no further
\* handler of the chain once a response is written, so control returns to
\* the wrapping middlewares.
JSON(code, v) ==
    /\ status' = code
    /\ respBody' = v
    /\ writes' = Append(writes, <<v>>)
    /\ errBody' = Write(code, <<v>>, errBody)
    /\ pc' = "statsExit"

\* a panic unwinds the whole chain: no code after ctx.Next() runs
Panic ==
    /\ pc' = "panicked"
    /\ UNCHANGED respVars

\* ------------------------------------------------------------------ arrival
Receive ==
    /\ pc = "idle"
    /\ route' \in Routes
    /\ authorization' \in AuthHeaders
    /\ tsdbOrg' \in OrgHeaders
    /\ pc' = Chain[1]
    /\ UNCHANGED <<publicOrgId, auxVars, authVars, bodyVars, loopVars, respVars, downVars,
                   ctrVars, esVars, obsVars, trace, failed>>

\* Tracer, up to macCtx.Next()
TracerEnter ==
    /\ pc = "tracer"
    /\ span' = "started"
    /\ pc' = After("tracer")
    /\ UNCHANGED <<publicOrgId, auxVars, inVars, authVars, bodyVars, loopVars, respVars,
                   downVars, ctrVars, esVars, spanTags, statVars, trace, failed>>

\* RequestStats, up to ctx.Next()
StatsEnter ==
    /\ pc = "stats"
    /\ pc' = After("stats")
    /\ UNCHANGED <<publicOrgId, auxVars, inVars, authVars, bodyVars, loopVars, respVars,
                   downVars, ctrVars, esVars, obsVars, trace, failed>>

GetContextHandler ==
    /\ pc = "context"
    /\ user' = EmptyUser
    /\ pc' = After("context")
    /\ UNCHANGED <<publicOrgId, auxVars, inVars, outcome, authCalls, bodyVars, loopVars,
                   respVars, downVars, ctrVars, esVars, obsVars, trace, failed>>

\* ---------------------------------------------------------------- Api.Auth
\* AuthStatus that answers 401 to every failure of the plugin
AuthStatusAlways401(e) == 401

AuthStatus(e) == IF e \in {"ErrInvalidKey", "ErrInvalidOrgId"} THEN 401 ELSE 500

Auth ==
    /\ pc = "auth"
    /\ LET k == getApiKey(authorization)
       IN  IF k.panic
           THEN /\ Panic
                /\ trace' = Append(trace, "auth")
                /\ failed' = failed \cup {"auth"}
                /\ UNCHANGED authVars
           ELSE IF k.err
           THEN /\ JSON(401, "Invalid Authentication header.")
                /\ trace' = Append(trace, "auth")
                /\ failed' = failed \cup {"auth"}
                /\ UNCHANGED authVars
           ELSE IF k.key = <<>>
           THEN /\ JSON(401, "Unauthorized")
                /\ trace' = Append(trace, "auth")
                /\ failed' = failed \cup {"auth"}
                /\ UNCHANGED authVars
           ELSE \E o \in AuthOutcomes :
                /\ outcome' = o
                /\ authCalls' = authCalls + 1
                /\ trace' = Append(trace, "auth")
                /\ IF o.err # "nil"
                   THEN /\ JSON(AuthStatus(o.err), o.err)
                        /\ failed' = failed \cup {"auth"}
                        /\ UNCHANGED user
                   ELSE /\ user' = Impersonate(o.user, tsdbOrg)
                        /\ pc' = After("auth")
                        /\ UNCHANGED <<respVars, failed>>
    /\ UNCHANGED <<publicOrgId, auxVars, inVars, bodyVars, loopVars, downVars, ctrVars,
                   esVars, obsVars>>

\* ----------------------------------------------------------------- Metrics
\* the switch on Content-Type
Metrics ==
    /\ pc = "route" /\ route = "metrics"
    /\ \E ct \in ContentTypes :
        /\ contentType' = ct
        /\ IF ct \in {"rt-metric-binary", "rt-metric-binary-snappy", "application/json"}
           THEN pc' = "read" /\ UNCHANGED respVars
           ELSE JSON(400, "unknown content-type")
    /\ UNCHANGED <<publicOrgId, auxVars, inVars, authVars, body, data, decoderCalls, loopVars,
                   downVars, ctrVars, esVars, obsVars, trace, failed>>

IsJson == contentType = "application/json"
Compressed == contentType = "rt-metric-binary-snappy"

\* metricsJson / metricsBinary: ioutil.ReadAll of the body.  A server request
\* always has a Body, so the "no data included in request." branch of the
\* nil test is not taken by any body of the model.
ReadBody ==
    /\ pc = "read"
    /\ \E b \in Bodies :
        LET r == ReadAll(b, Compressed)
        IN  /\ body' = b
            /\ trace' = Append(trace, "read")
            /\ IF b = NoBody
               THEN /\ JSON(400, "no data included in request.")
                    /\ UNCHANGED <<data, failed>>
               ELSE /\ data' = r.data
                    /\ failed' = IF r.err THEN failed \cup {"read"} ELSE failed
                    /\ IF r.err /\ ~IsJson
                       \* metricsBinary returns; metricsJson only logs the error
                       THEN JSON(500, "unable to read request body")
                       ELSE pc' = "decode" /\ UNCHANGED respVars
    /\ UNCHANGED <<publicOrgId, auxVars, inVars, authVars, contentType, decoderCalls,
                   loopVars, downVars, ctrVars, esVars, obsVars>>

\* the decoded slice, ready for the range statement
StartLoop(ms) ==
    /\ metrics' = ms
    /\ submitted' = ms
    /\ rangeLen' = Len(ms)
    /\ idx' = 1
    /\ pc' = "loop"
    /\ UNCHANGED <<respVars, failed>>

Decode ==
    /\ pc = "decode"
    /\ trace' = Append(trace, "decode")
    /\ IF IsJson
       THEN LET u == JsonUnmarshal(data)
            IN  /\ decoderCalls' = decoderCalls + 1
                /\ IF u.err
                   THEN /\ JSON(400, "unable to parse request body.")
                        /\ failed' = failed \cup {"decode"}
                        /\ UNCHANGED loopVars
                   ELSE StartLoop(u.metrics)
       ELSE LET e == InitFromMsg(data)
                u == DecodeMetricData(data)
            IN  IF e.err
                THEN /\ decoderCalls' = decoderCalls + 1
                     /\ JSON(500, "payload not metricData")
                     /\ failed' = failed \cup {"decode"}
                     /\ UNCHANGED loopVars
                ELSE /\ decoderCalls' = decoderCalls + 2
                     /\ IF u.err
                        THEN /\ JSON(500, "failed to unmarshal metricData")
                             /\ failed' = failed \cup {"decode"}
                             /\ UNCHANGED loopVars
                        ELSE StartLoop(u.metrics)
    /\ UNCHANGED <<publicOrgId, auxVars, inVars, authVars, contentType, body, data,
                   downVars, ctrVars, esVars, obsVars>>

\* one iteration of the range loop (the admin and the tenant loop differ only
\* in Normalize and in the public copy, both decided by user.IsAdmin)
\* a loop whose bound is the live length of the batch, appended copies included
LoopOverLive ==
    /\ pc = "loop" /\ idx <= Len(metrics)
    /\ LET r == LoopBody(metrics, idx, user, publicOrgId)
       IN  IF r.panic
           THEN /\ Panic
                /\ UNCHANGED <<loopVars, ctrVars, trace, failed>>
           ELSE IF r.err # "nil"
           THEN /\ metrics' = r.metrics
                /\ metricsRejected' = metricsRejected + Len(metrics)
                /\ JSON(400, r.err)
                /\ trace' = trace \o <<"normalize", "validate">>
                /\ failed' = failed \cup {"validate"}
                /\ UNCHANGED <<submitted, rangeLen, idx, metricsValid>>
           ELSE /\ metrics' = r.metrics
                /\ idx' = idx + 1
                /\ trace' = trace \o <<"normalize", "validate", "setid">>
                /\ UNCHANGED <<pc, submitted, rangeLen, respVars, ctrVars, failed>>
    /\ UNCHANGED <<publicOrgId, auxVars, inVars, authVars, bodyVars, downVars, esVars, obsVars>>

Loop ==
    /\ pc = "loop" /\ idx <= rangeLen
    /\ LET r == LoopBody(metrics, idx, user, publicOrgId)
       IN  IF r.panic
           THEN /\ Panic
                /\ UNCHANGED <<loopVars, ctrVars, trace, failed>>
           ELSE IF r.err # "nil"
           THEN /\ metrics' = r.metrics
                /\ metricsRejected' = metricsRejected + Len(metrics)
                /\ JSON(400, r.err)
                /\ trace' = trace \o <<"normalize", "validate">>
                /\ failed' = failed \cup {"validate"}
                /\ UNCHANGED <<submitted, rangeLen, idx, metricsValid>>
           ELSE /\ metrics' = r.metrics
                /\ idx' = idx + 1
                /\ trace' = trace \o <<"normalize", "validate", "setid">>
                /\ UNCHANGED <<pc, submitted, rangeLen, respVars, ctrVars, failed>>
    /\ UNCHANGED <<publicOrgId, auxVars, inVars, authVars, bodyVars, downVars, esVars, obsVars>>

PublishErrors == {"nil", "ErrPublish"}

\* Publish that answers 200 "ok" whatever metric_publish.Publish returned
PublishSwallowError ==
    /\ pc = "loop" /\ idx > rangeLen
    /\ metricsValid' = metricsValid + Len(metrics)
    /\ trace' = Append(trace, "publish")
    /\ \E err \in PublishErrors :
        /\ published' = Append(published, [batch |-> metrics, err |-> err])
        /\ JSON(200, "ok")
        /\ failed' = IF err # "nil" THEN failed \cup {"publish"} ELSE failed
    /\ UNCHANGED <<publicOrgId, auxVars, inVars, authVars, bodyVars, loopVars, proxied,
                   metricsRejected, esVars, obsVars>>

\* Publish entered one iteration early (loop bound off by one)
PublishEarly ==
    /\ pc = "loop" /\ idx >= rangeLen
    /\ metricsValid' = metricsValid + Len(metrics)
    /\ trace' = Append(trace, "publish")
    /\ \E err \in PublishErrors :
        /\ published' = Append(published, [batch |-> metrics, err |-> err])
        /\ IF err # "nil"
           THEN JSON(500, err) /\ failed' = failed \cup {"publish"}
           ELSE JSON(200, "ok") /\ UNCHANGED failed
    /\ UNCHANGED <<publicOrgId, auxVars, inVars, authVars, bodyVars, loopVars, proxied,
                   metricsRejected, esVars, obsVars>>

\* after the loop: metricsValid.Add, metric_publish.Publish, the response
Publish ==
    /\ pc = "loop" /\ idx > rangeLen
    /\ metricsValid' = metricsValid + Len(metrics)
    /\ trace' = Append(trace, "publish")
    /\ \E err \in PublishErrors :
        /\ published' = Append(published, [batch |-> metrics, err |-> err])
        /\ IF err # "nil"
           THEN JSON(500, err) /\ failed' = failed \cup {"publish"}
           ELSE JSON(200, "ok") /\ UNCHANGED failed
    /\ UNCHANGED <<publicOrgId, auxVars, inVars, authVars, bodyVars, loopVars, proxied,
                   metricsRejected, esVars, obsVars>>

\* ------------------------------------------------------ ElasticsearchProxy
ProxyStatuses == {200, 502}
\* the Write calls with which elasticsearch.Proxy relays the body: none, one
\* with the whole body, or two with a part each
ProxyWrites == { <<>>, << <<"pro", "xied">> >>, << <<"pro">>, <<"xied">> >> }
\* elasticsearch.Proxy(orgId, ctx) relaying a response: the status is set,
\* then the body is written chunk by chunk
Relay(code, chunks) ==
    /\ status' = code
    /\ respBody' = "proxied"
    /\ writes' = writes \o chunks
    /\ errBody' = WriteAll(code, chunks, errBody)
    /\ pc' = "statsExit"

\* an allow-list that looks at the path only
AllowAnyMethod(m, p, stats) ==
    IF p = stats THEN "stats"
    ELSE IF p = <<"_msearch">> THEN "proxy"
    ELSE "notfound"

\* the branch ElasticsearchProxy takes for method m and path p, stats being
\* idxDate+"/_stats"
Allow(m, p, stats) ==
    IF m = "GET" /\ p = stats THEN "stats"
    ELSE IF m = "POST" /\ p = <<"_msearch">> THEN "proxy"
    ELSE "notfound"

ElasticsearchProxy ==
    /\ pc = "route" /\ route = "elasticsearch"
    /\ \E m \in Methods, p \in ProxyPaths, t \in Instants, z \in Zones :
        /\ method' = m /\ proxyPath' = p
        /\ now' = t /\ local' = z /\ today' = NowDate(t, z)
        /\ IF Allow(m, p, StatsPath(NowDate(t, z))) = "stats"
           THEN JSON(200, "ok") /\ UNCHANGED <<proxied, trace>>
           ELSE IF Allow(m, p, StatsPath(NowDate(t, z))) = "proxy"
           THEN /\ proxied' = Append(proxied, user.OrgId)
                /\ trace' = Append(trace, "proxy")
                /\ \E st \in ProxyStatuses, chunks \in ProxyWrites :
                       Relay(st, chunks)
           ELSE JSON(404, "Not Found") /\ UNCHANGED <<proxied, trace>>
    /\ UNCHANGED <<publicOrgId, auxVars, inVars, authVars, bodyVars, loopVars, published,
                   ctrVars, obsVars, failed>>

\* --------------------------------------------------------- after ctx.Next()
\* the state of a requestStats value and of the objects it created
StatsState ==
    [rc |-> responseCounts, lh |-> latencyHistograms, sm |-> sizeMeters,
     objs |-> objects]
\* stats.NewCounter32 / NewLatencyHistogram15s32 / NewMeter32: a new object
\* under the given name, its id being its place in the order of creation
NewObject(objs, name) == Append(objs, [name |-> name, n |-> 0])
\* c.Inc() / p.Value(v): one more increment or observation on object c
Observe(objs, c) == [objs EXCEPT ![c].n = @ + 1]

\* m[k] = v on a Go map
Put(f, k, v) == [q \in DOMAIN f \cup {k} |-> IF q = k THEN v ELSE f[q]]

\* PathStatusCount(ctx, path, status), run by one request on its own
PathStatusCount(st, path, code) ==
    LET inner == IF path \in DOMAIN st.rc THEN st.rc[path] ELSE <<>>
        ok == code \in DOMAIN inner
        objs == IF ok THEN st.objs
                ELSE NewObject(st.objs, <<"count", path, code>>)
        c == IF ok THEN inner[code] ELSE Len(objs)
    IN  [st EXCEPT !.rc = Put(st.rc, path, Put(inner, code, c)),
                   !.objs = Observe(objs, c)]

\* PathLatency(ctx, path, dur)
PathLatency(st, path) ==
    LET ok == path \in DOMAIN st.lh
        objs == IF ok THEN st.objs ELSE NewObject(st.objs, <<"latency", path>>)
        c == IF ok THEN st.lh[path] ELSE Len(objs)
    IN  [st EXCEPT !.lh = Put(st.lh, path, c),
                   !.objs = Observe(objs, c)]

\* PathSize(ctx, path, size)
PathSize(st, path) ==
    LET ok == path \in DOMAIN st.sm
        objs == IF ok THEN st.objs ELSE NewObject(st.objs, <<"size", path>>)
        c == IF ok THEN st.sm[path] ELSE Len(objs)
    IN  [st EXCEPT !.sm = Put(st.sm, path, c),
                   !.objs = Observe(objs, c)]

\* a recording rule that treats 404 like any other status
RecordAlways(st, path, st0) ==
    LET counted == PathLatency(PathStatusCount(st, path, st0), path)
    IN  IF st0 < 300 THEN PathSize(counted, path) ELSE counted

\* what RequestStats records after ctx.Next() for status st0 on slug path
Record(st, path, st0) ==
    LET counted == IF st0 # 404
                   THEN PathLatency(PathStatusCount(st, path, st0), path)
                   ELSE st
    IN  IF st0 < 300 THEN PathSize(counted, path) ELSE counted

\* ctx.Req.URL.Path of the request: the ingestion route, or the search proxy
\* route followed by the proxied path
UrlPath ==
    IF route = "metrics" THEN <<"/", "metrics">>
    ELSE <<"/", "elasticsearch", "/">> \o proxyPath

\* RequestStats after ctx.Next()
StatsExit ==
    /\ pc = "statsExit"
    /\ LET st == Record(StatsState, pathSlug(UrlPath), status)
       IN  /\ responseCounts' = st.rc
           /\ latencyHistograms' = st.lh
           /\ sizeMeters' = st.sm
           /\ objects' = st.objs
    /\ trace' = Append(trace, "stats")
    /\ pc' = "tracerExit"
    /\ UNCHANGED <<publicOrgId, auxVars, inVars, authVars, bodyVars, loopVars, respVars,
                   downVars, ctrVars, esVars, spanVars, failed>>

\* Tracer after macCtx.Next(): span.Finish()
TracerExit ==
    /\ pc = "tracerExit"
    /\ spanTags' = [code |-> status,
                    size |-> IF status >= 200 /\ status < 300
                             THEN Len(Flatten(writes)) ELSE -1,
                    logged |-> status >= 400,
                    log |-> IF status >= 400 THEN errBody ELSE <<>>,
                    error |-> status >= 400 /\ status >= 500]
    /\ span' = "finished"
    /\ trace' = Append(trace, "trace")
    /\ pc' = "done"
    /\ UNCHANGED <<publicOrgId, auxVars, inVars, authVars, bodyVars, loopVars, respVars,
                   downVars, ctrVars, esVars, statVars, failed>>

Next ==
    \/ Receive
    \/ TracerEnter
    \/ StatsEnter
    \/ GetContextHandler
    \/ Auth
    \/ Metrics
    \/ ReadBody
    \/ Decode
    \/ Loop
    \/ Publish
    \/ ElasticsearchProxy
    \/ StatsExit
    \/ TracerExit

Spec == Init /\ [][Next]_vars

\* ------------------------------------- RequestStats, concurrent requests
\* NumProcs requests have returned from ctx.Next() and record their stats on
\* the one requestStats value, each with its slug and final status.
Procs == 1..NumProcs
StatPaths == {<<"metrics">>, <<"root">>}
StatCodes == {200, 404, 500}
Proc(call, step, path, code, ok, c) ==
    [call |-> call, step |-> step, path |-> path, code |-> code, ok |-> ok, c |-> c]
NewProc == Proc("none", "new", <<>>, 0, FALSE, 0)

\* the first method RequestStats calls for a status, and the one after a call
FirstCall(code) ==
    IF code # 404 THEN "count" ELSE IF code < 300 THEN "size" ELSE "done"
NextCall(call, code) ==
    IF call = "count" THEN "latency"
    ELSE IF call = "latency" /\ code < 300 THEN "size"
    ELSE "done"
Enter(q, call) ==
    [q EXCEPT !.call = call, !.step = IF call = "done" THEN "done" ELSE "lock",
              !.ok = FALSE, !.c = 0]

\* metricKey and the names given to the histogram and the meter
MetricKey(q) ==
    IF q.call = "count" THEN <<"count", q.path, q.code>> ELSE <<q.call, q.path>>

InitStats ==
    /\ publicOrgId = -1
    /\ Idle
    /\ NoSlug
    /\ responseCounts = <<>> /\ latencyHistograms = <<>> /\ sizeMeters = <<>>
    /\ objects = <<>>
    /\ mutex = 0
    /\ procs = [i \in Procs |-> NewProc]

reqVars ==
    <<pc, publicOrgId, inVars, authVars, bodyVars, loopVars, respVars, downVars,
      ctrVars, esVars, spanVars, slugVars, trace, failed>>

\* status := rw.Status(); path := pathSlug(ctx.Req.URL.Path)
AfterNext(i) ==
    /\ procs[i].step = "new"
    /\ \E path \in StatPaths, code \in StatCodes :
        procs' = [procs EXCEPT ![i] =
                     Enter([@ EXCEPT !.path = path, !.code = code], FirstCall(code))]
    /\ UNCHANGED <<reqVars, statVars, mutex>>

\* a Lock that does not wait for the mutex
LockNoWait(i) ==
    /\ procs[i].step = "lock"
    /\ mutex' = i
    /\ procs' = [procs EXCEPT ![i].step = "lookup"]
    /\ UNCHANGED <<reqVars, statVars>>

\* r.Lock()
Lock(i) ==
    /\ procs[i].step = "lock"
    /\ mutex = 0
    /\ mutex' = i
    /\ procs' = [procs EXCEPT ![i].step = "lookup"]
    /\ UNCHANGED <<reqVars, statVars>>

\* p, ok := r.<map>[path] (for PathStatusCount: the inner map, made and
\* stored when absent, then c, ok := p[status])
Lookup(i) ==
    LET q == procs[i]
        inner == IF q.path \in DOMAIN responseCounts
                 THEN responseCounts[q.path] ELSE <<>>
        f == IF q.call = "count" THEN inner
             ELSE IF q.call = "latency" THEN latencyHistograms
             ELSE sizeMeters
        k == IF q.call = "count" THEN q.code ELSE q.path
    IN  /\ q.step = "lookup"
        /\ responseCounts' = IF q.call = "count"
                             THEN Put(responseCounts, q.path, inner)
                             ELSE responseCounts
        /\ procs' = [procs EXCEPT ![i] =
                         [q EXCEPT !.step = "create", !.ok = k \in DOMAIN f,
                                   !.c = IF k \in DOMAIN f THEN f[k] ELSE 0]]
        /\ UNCHANGED <<reqVars, latencyHistograms, sizeMeters, objects, mutex>>

\* if !ok { c = stats.New...(name); r.<map>[key] = c }
Create(i) ==
    LET q == procs[i]
        objs == NewObject(objects, MetricKey(q))
        c == Len(objs)
    IN  /\ q.step = "create"
        /\ IF q.ok
           THEN /\ procs' = [procs EXCEPT ![i].step = "unlock"]
                /\ UNCHANGED statVars
           ELSE /\ objects' = objs
                /\ procs' = [procs EXCEPT ![i] = [q EXCEPT !.step = "unlock", !.c = c]]
                /\ responseCounts' =
                       IF q.call = "count"
                       THEN Put(responseCounts, q.path,
                                Put(responseCounts[q.path], q.code, c))
                       ELSE responseCounts
                /\ latencyHistograms' =
                       IF q.call = "latency" THEN Put(latencyHistograms, q.path, c)
                       ELSE latencyHistograms
                /\ sizeMeters' =
                       IF q.call = "size" THEN Put(sizeMeters, q.path, c)
                       ELSE sizeMeters
        /\ UNCHANGED <<reqVars, mutex>>

\* r.Unlock()
Unlock(i) ==
    /\ procs[i].step = "unlock"
    /\ mutex' = 0
    /\ procs' = [procs EXCEPT ![i].step = "observe"]
    /\ UNCHANGED <<reqVars, statVars>>

\* c.Inc() / p.Value(v), atomic on the object; the method returns and
\* RequestStats goes on to its next call
IncOrValue(i) ==
    LET q == procs[i]
    IN  /\ q.step = "observe"
        /\ objects' = Observe(objects, q.c)
        /\ procs' = [procs EXCEPT ![i] = Enter(q, NextCall(q.call, q.code))]
        /\ UNCHANGED <<reqVars, responseCounts, latencyHistograms, sizeMeters, mutex>>

NextStats ==
    \E i \in Procs :
        \/ AfterNext(i)
        \/ Lock(i)
        \/ Lookup(i)
        \/ Create(i)
        \/ Unlock(i)
        \/ IncOrValue(i)

SpecStats == InitStats /\ [][NextStats]_vars

\* ------------------------------------------------- pathSlug, applied twice
InitSlug ==
    /\ publicOrgId = -1
    /\ Idle
    /\ NoStats
    /\ urlPath \in SlugPaths
    /\ slug = <<>> /\ reslug = <<>> /\ slugStep = 0

SlugOnce ==
    /\ slugStep = 0
    /\ slug' = pathSlug(urlPath)
    /\ slugStep' = 1
    /\ UNCHANGED <<pc, publicOrgId, inVars, authVars, bodyVars, loopVars, respVars,
                   downVars, ctrVars, esVars, obsVars, concVars, urlPath, reslug,
                   trace, failed>>

SlugTwice ==
    /\ slugStep = 1
    /\ reslug' = pathSlug(slug)
    /\ slugStep' = 2
    /\ UNCHANGED <<pc, publicOrgId, inVars, authVars, bodyVars, loopVars, respVars,
                   downVars, ctrVars, esVars, obsVars, concVars, urlPath, slug,
                   trace, failed>>

NextSlug == SlugOnce \/ SlugTwice

SpecSlug == InitSlug /\ [][NextSlug]_vars

\* =================================================================== claims
\* the route handler has returned with a response written
Handled == pc \in {"statsExit", "tracerExit", "done"}
\* Api.Auth has run
AuthDone == pc \notin {"idle", "tracer", "stats", "context", "auth"}
ValidationErrors ==
    {"errInvalidOrgIdzero", "errInvalidEmptyName", "errInvalidEmptyMetric",
     "errInvalidMtype", "errInvalidTagFormat"}

\* C1 — tenant isolation: when the caller resolved by the auth plugin is not
\* an admin, every record of every batch handed to Publish carries the
\* caller's OrgId, whatever OrgId the body carried, whatever public-org is and
\* whatever X-Tsdb-Org header was sent.
C1_TenantIsolation ==
    (outcome.err = "nil" /\ ~outcome.user.IsAdmin) =>
        \A c \in 1..Len(published) :
            \A j \in 1..Len(published[c].batch) :
                published[c].batch[j].OrgId = outcome.user.OrgId

\* a tenant's batch with a record for another org and a record for the
\* no-organization sentinel was published, with public-org set and an
\* impersonation header sent
C1_Witness ==
    /\ outcome.err = "nil" /\ ~outcome.user.IsAdmin
    /\ publicOrgId # -1 /\ tsdbOrg = <<"3">>
    /\ Len(published) = 1 /\ Len(published[1].batch) = 2
    /\ \E j \in 1..Len(submitted) : submitted[j].OrgId = 9
    /\ \E j \in 1..Len(submitted) : submitted[j].OrgId = -1

\* C2 — all-or-nothing batch: when a record of the batch fails validation,
\* Publish is not called, the response is 400 with the validation error,
\* metricsValid is unchanged and metricsRejected has grown by the number of
\* records of the decoded batch.
C2_AllOrNothing ==
    ("validate" \in failed) =>
        /\ published = <<>>
        /\ status = 400 /\ respBody \in ValidationErrors
        /\ metricsValid = 0
        /\ metricsRejected = Len(submitted)

\* the Authorization headers that carry no credential
NoCredentialHeaders ==
    { <<>>,                               \* header absent
      <<"Digest", " ", "k1">>,            \* unknown scheme
      <<"Basic", " ", "%%%">>,            \* not base64
      <<"Basic", " ", "Ym9iOmsx">>,       \* bob:k1
      <<"Basic", " ", "YXBpX2tleQ==">> }  \* api_key, no ":<pass>"

\* C3 — a request without a credential, or whose credential the auth plugin
\* rejects as invalid key or invalid org, is answered 401, its Identity stays
\* unpopulated and neither Publish nor the search proxy is called.
C3_Unauthenticated401 ==
    ( /\ AuthDone
      /\ \/ authorization \in NoCredentialHeaders
         \/ outcome.err \in {"ErrInvalidKey", "ErrInvalidOrgId"} ) =>
        /\ status = 401
        /\ user = EmptyUser
        /\ published = <<>> /\ proxied = <<>>

\* the id m.SetId() computes for a record with m's fields
IdFor(m) == <<m.OrgId, m.Metric, m.Mtype, m.Tags>>

\* C4 — public duplication: an admin's batch of one valid record with
\* OrgId -1, with public-org P # -1, is published as exactly two records, one
\* with OrgId -1 and one with OrgId P, equal in every other field but the Id
\* (type gauge, no tags), with different Ids, each the id of its own OrgId.
C4_PublicDuplication ==
    ( /\ outcome.err = "nil" /\ user.IsAdmin
      /\ publicOrgId # -1
      /\ Len(submitted) = 1 /\ ~submitted[1].nil /\ submitted[1].OrgId = -1
      /\ Len(published) = 1 ) =>
        LET b == published[1].batch
        IN  /\ Len(b) = 2
            /\ \E i, j \in 1..Len(b) :
                /\ b[i].OrgId = -1 /\ b[j].OrgId = publicOrgId
                /\ b[i].Name = b[j].Name /\ b[i].Metric = b[j].Metric
                /\ b[i].Mtype = "gauge" /\ b[j].Mtype = "gauge"
                /\ b[i].Tags = <<>> /\ b[j].Tags = <<>>
                /\ b[i].Id # b[j].Id
                /\ b[i].Id = IdFor(b[i]) /\ b[j].Id = IdFor(b[j])

\* C5 — impersonation is admin-only: after a successful authentication the
\* context's identity has the resolved IsAdmin; for a non-admin it is the
\* resolved identity whatever X-Tsdb-Org says; for an admin its OrgId is the
\* header's value when the header parses as a decimal integer other than 0,
\* and the resolved OrgId otherwise.
C5_ImpersonationAdminOnly ==
    (AuthDone /\ outcome.err = "nil") =>
        LET r == outcome.user
            p == ParseInt(tsdbOrg)
        IN  /\ user.IsAdmin = r.IsAdmin
            /\ ~r.IsAdmin => user = r
            /\ r.IsAdmin =>
                user.OrgId = IF ~p.err /\ p.val # 0 THEN p.val ELSE r.OrgId

\* a non-admin sent X-Tsdb-Org: 3 and was served
C5_Witness ==
    /\ pc = "done" /\ outcome.err = "nil" /\ ~outcome.user.IsAdmin
    /\ tsdbOrg = <<"3">> /\ user.OrgId = 7 /\ status = 200

\* C6 — auth failure mapping: when the auth plugin fails, the response is 401
\* with the failure for invalid key / invalid org and 500 for any other
\* failure, the Identity is still the empty placeholder, the plugin was called
\* exactly once and no route handler ran; the plugin is never called twice and
\* the Identity is populated only after a successful call.
C6_AuthFailureMapping ==
    /\ authCalls <= 1
    /\ (user # EmptyUser => outcome.err = "nil")
    /\ (outcome.err \in AuthErrors) =>
        /\ status = IF outcome.err \in {"ErrInvalidKey", "ErrInvalidOrgId"} THEN 401 ELSE 500
        /\ respBody = outcome.err
        /\ user = EmptyUser
        /\ authCalls = 1
        /\ contentType = "" /\ body = NoBody /\ decoderCalls = 0 /\ method = ""
        /\ published = <<>> /\ proxied = <<>>
        /\ \A i \in 1..Len(trace) : trace[i] \in {"auth", "stats", "trace"}

\* the plugin failed with another error and the request ended with 500
C6_Witness ==
    /\ pc = "done" /\ outcome.err = "ErrOther" /\ status = 500 /\ authCalls = 1

\* the phase of the pipeline a step belongs to
Phase(e) ==
    CASE e = "auth" -> 1
      [] e = "read" -> 2
      [] e = "decode" -> 3
      [] e \in {"normalize", "validate", "setid"} -> 4
      [] e \in {"publish", "proxy"} -> 5
      [] e = "stats" -> 6
      [] e = "trace" -> 7

Count(e) == Cardinality({ i \in 1..Len(trace) : trace[i] = e })
PhasesInOrder ==
    \A i, j \in 1..Len(trace) : i < j => Phase(trace[i]) <= Phase(trace[j])

DecodedOk == Count("decode") = 1 /\ "decode" \notin failed
\* every record of the decoded batch is a record and passes validation
AllPass ==
    \A j \in 1..Len(submitted) :
        ~submitted[j].nil /\ Validate(Normalize(submitted[j], user)) = "nil"

\* C8 — publish outcome and no retry: when every record of the decoded batch
\* passes validation, metricsValid grows by the size of the batch handed to
\* Publish, Publish is called exactly once with the handler's batch and
\* metricsRejected is untouched; the response is 200 "ok" exactly when Publish
\* succeeded and 500 with its error exactly when it failed.  Publish is never
\* called twice, and no request increments both counters.
C8_PublishOutcome ==
    /\ Len(published) <= 1
    /\ ~(metricsValid > 0 /\ metricsRejected > 0)
    /\ (Len(published) > 0 => metricsRejected = 0)
    /\ ("validate" \in failed => metricsValid = 0)
    /\ (Handled /\ route = "metrics" /\ DecodedOk /\ AllPass) =>
        /\ Len(published) = 1
        /\ published[1].batch = metrics
        /\ metricsValid = Len(published[1].batch)
        /\ (status = 200 /\ respBody = "ok") <=> (published[1].err = "nil")
        /\ (status = 500 /\ respBody = published[1].err) <=> (published[1].err # "nil")

\* an admin's batch of two valid records, one of them public, was handed to
\* Publish, which failed
C8_Witness ==
    /\ pc = "done" /\ route = "metrics" /\ DecodedOk /\ AllPass
    /\ Len(submitted) = 2 /\ Len(published) = 1
    /\ Len(published[1].batch) = 3 /\ metricsValid = 3
    /\ published[1].err = "ErrPublish" /\ status = 500

\* C9 — read and parse failures publish nothing: when reading the body fails
\* or the body does not decode, the response is 400 or 500, Publish is not
\* called and neither counter changes.
C9_ReadParseFailures ==
    (Handled /\ route = "metrics" /\ failed \cap {"read", "decode"} # {}) =>
        /\ status \in {400, 500}
        /\ published = <<>>
        /\ metricsValid = 0 /\ metricsRejected = 0

\* C10 — empty body: a request with a recognised content type and a body of
\* zero bytes is answered 400 "no data included in request." without any
\* decoder being called and without anything being published.
C10_EmptyBody ==
    (Handled /\ body.content.kind = "empty" /\ body.end = "eof") =>
        /\ status = 400 /\ respBody = "no data included in request."
        /\ decoderCalls = 0
        /\ published = <<>>

\* the records of the decoded batch up to position j that carry the
\* no-organization sentinel
PublicUpTo(j) == { i \in 1..j : ~submitted[i].nil /\ submitted[i].OrgId = -1 }
\* the loop appends public copies for this request
Duplicating == user.IsAdmin /\ publicOrgId # -1

\* C13 — public duplication leaves the original untouched: for an admin with
\* public-org P # -1, once the loop has passed a record submitted with
\* OrgId -1, the record at its position still has OrgId -1 and the id of
\* OrgId -1, and the record appended for it has OrgId P and the id of OrgId P;
\* the two agree in every other field.
C13_OriginalUntouched ==
    (Duplicating /\ route = "metrics") =>
        \A j \in 1..Len(submitted) :
            (j < idx /\ j \in PublicUpTo(j)) =>
                LET o == metrics[j]
                    d == metrics[rangeLen + Cardinality(PublicUpTo(j))]
                IN  /\ o.OrgId = -1 /\ o.Id = IdFor(o)
                    /\ d.OrgId = publicOrgId /\ d.Id = IdFor(d)
                    /\ [d EXCEPT !.OrgId = -1, !.Id = <<>>] = [o EXCEPT !.Id = <<>>]

\* C14 (as stated) — every record of the batch handed to Publish, the
\* appended public copies included, was visited by the normalization loop.
C14_DuplicatesVisited ==
    \A c \in 1..Len(published) :
        Count("normalize") = Len(published[c].batch)

\* C14 (amended) — the loop visits the records of the decoded batch and only
\* those: its index never passes the decoded length, one iteration is run per
\* decoded record, and each record beyond the decoded length is the copy taken
\* when the loop had normalized, validated and identified the record it
\* duplicates, handed to Publish as it was appended.
C14_DuplicatesNotVisited ==
    (route = "metrics" /\ DecodedOk) =>
        /\ rangeLen = Len(submitted)
        /\ idx \in 1..(rangeLen + 1)
        /\ Count("normalize") <= rangeLen
        /\ \A c \in 1..Len(published) :
            /\ Count("normalize") = rangeLen
            /\ Len(published[c].batch) >= rangeLen
        /\ \A k \in (rangeLen + 1)..Len(metrics) :
            \E j \in 1..rangeLen :
                /\ j < idx /\ j \in PublicUpTo(j)
                /\ k = rangeLen + Cardinality(PublicUpTo(j))
                /\ metrics[k] = SetId(Normalize(submitted[j], user))

\* an admin's batch of two public records was published as four records after
\* two iterations
C14_Witness ==
    /\ Duplicating /\ Len(submitted) = 2 /\ Count("normalize") = 2
    /\ Len(published) = 1 /\ Len(published[1].batch) = 4

\* C15 — the loop terminates with a bounded batch: while it runs its index
\* stays within the decoded length plus one and a next iteration or Publish can
\* always be taken; the batch never exceeds twice the decoded length, holds one
\* appended copy per visited public record and no copy of a copy; when every
\* record is valid the batch handed to Publish has the decoded length plus the
\* number of public records for a duplicating admin, the decoded length
\* otherwise.
C15_BoundedBatch ==
    (route = "metrics" /\ DecodedOk) =>
        /\ Len(metrics) <= 2 * Len(submitted)
        /\ pc = "loop" =>
            /\ idx \in 1..(Len(submitted) + 1)
            /\ Count("normalize") = idx - 1
            /\ ENABLED (Loop \/ Publish)
        /\ Len(metrics) - Len(submitted) =
              IF Duplicating
              THEN Cardinality({ j \in PublicUpTo(Len(submitted)) : j < idx })
              ELSE 0
        /\ AllPass =>
            \A c \in 1..Len(published) :
                Len(published[c].batch) =
                    Len(submitted) +
                    IF Duplicating
                    THEN Cardinality(PublicUpTo(Len(submitted)))
                    ELSE 0

\* the largest batch: an admin's two public records, published as four
C15_Witness ==
    /\ Duplicating /\ AllPass /\ Len(submitted) = MaxBatch
    /\ Cardinality(PublicUpTo(MaxBatch)) = MaxBatch
    /\ Len(published) = 1 /\ Len(published[1].batch) = 2 * MaxBatch

\* ElasticsearchProxy has run
EsDone == Handled /\ route = "elasticsearch" /\ method # ""
\* the OrgId the request acts for: the X-Tsdb-Org value for an admin who sent
\* a parseable non-zero one, the resolved caller's OrgId otherwise
ActingOrgId ==
    LET h == ParseInt(tsdbOrg)
    IN  IF outcome.user.IsAdmin /\ ~h.err /\ h.val # 0
        THEN h.val ELSE outcome.user.OrgId

\* C11 — search-proxy allow-list: the search proxy is called exactly when the
\* method is POST and the path is "_msearch", and then once, with the OrgId
\* the request acts for; a GET of the stats path of the gateway's date is
\* answered 200 "ok" and every other combination 404 "Not Found", both
\* without a proxy call.
C11_AllowList ==
    /\ route = "metrics" => proxied = <<>>
    /\ ~EsDone => proxied = <<>>
    /\ EsDone =>
        IF method = "POST" /\ proxyPath = <<"_msearch">>
        THEN proxied = <<ActingOrgId>>
        ELSE /\ proxied = <<>>
             /\ IF method = "GET" /\ proxyPath = StatsPath(today)
                THEN status = 200 /\ respBody = "ok"
                ELSE status = 404 /\ respBody = "Not Found"

\* an admin impersonating org 3 had an _msearch proxied for org 3
C11_Witness ==
    /\ EsDone /\ method = "POST" /\ proxyPath = <<"_msearch">>
    /\ outcome.user.IsAdmin /\ tsdbOrg = <<"3">> /\ proxied = <<3>>

\* the UTC date of the instant at which the clock was read
UtcToday == DateIn(now, 0)
\* the date a stats path names: D such that path = IndexName-D/_stats with D
\* in zero-padded YYYY-MM-DD form
NamesDate(path, t) == path = StatsPath(t)

\* C20 — the stats short-circuit uses today's UTC date: a GET of
\* "<IndexName>-D/_stats" is answered 200 "ok" without a proxy call exactly
\* when D is the UTC date of the request's instant in zero-padded YYYY-MM-DD
\* form, and 404 "Not Found" for any other D, whatever the gateway's time zone.
C20_UtcDate ==
    (EsDone /\ method = "GET" /\ Len(proxyPath) > 1) =>
        /\ proxied = <<>>
        /\ IF NamesDate(proxyPath, UtcToday)
           THEN status = 200 /\ respBody = "ok"
           ELSE status = 404 /\ respBody = "Not Found"

\* C12 — pathSlug is idempotent and never empty: for every path over letters,
\* "/" and ".", the slug is not empty and holds neither "/" nor ".", slugging
\* the slug gives the slug again, the slug of "/a/b.c" is "a_b_c" and the slug
\* of "/" is "root".
C12_SlugIdempotent ==
    /\ slugStep >= 1 =>
        /\ slug # <<>>
        /\ \A i \in 1..Len(slug) : slug[i] \notin {"/", "."}
        /\ urlPath = Example => slug = <<"a", "_", "b", "_", "c">>
        /\ urlPath = <<"/">> => slug = <<"root">>
    /\ slugStep = 2 => reslug = slug

\* "/../." was slugged to "root", and "root" to itself
C12_Witness ==
    /\ slugStep = 2 /\ urlPath = <<"/", ".", ".", "/">>
    /\ slug = <<"root">> /\ reslug = <<"root">>

\* RequestStats has run its part after ctx.Next()
StatsDone == pc \in {"tracerExit", "done"}
\* the number of increments or observations on the object map f holds for key
\* k, 0 when f has no entry for k
Observed(f, k) == IF k \in DOMAIN f THEN objects[f[k]].n ELSE 0

\* C17 — stats recording rule: for a request that ended with status s on slug
\* p, the counter of (p, s) was incremented once and the latency histogram of
\* p observed once exactly when s is not 404, and the size meter of p observed
\* once exactly when s is below 300; nothing else was created or changed, and
\* a request answered 404 leaves the three maps without any entry.
C17_RecordingRule ==
    /\ ~StatsDone => objects = <<>>
    /\ StatsDone =>
        LET p == pathSlug(UrlPath)
            counted == status # 404
            sized == status < 300
        IN  /\ DOMAIN responseCounts = IF counted THEN {p} ELSE {}
            /\ counted => DOMAIN responseCounts[p] = {status}
            /\ counted => objects[responseCounts[p][status]] =
                              [name |-> <<"count", p, status>>, n |-> 1]
            /\ DOMAIN latencyHistograms = IF counted THEN {p} ELSE {}
            /\ Observed(latencyHistograms, p) = IF counted THEN 1 ELSE 0
            /\ DOMAIN sizeMeters = IF sized THEN {p} ELSE {}
            /\ Observed(sizeMeters, p) = IF sized THEN 1 ELSE 0
            /\ Len(objects) = (IF counted THEN 2 ELSE 0) + (IF sized THEN 1 ELSE 0)

\* a search-proxy request answered 404 was instrumented and left no entry
C17_Witness ==
    /\ pc = "done" /\ route = "elasticsearch" /\ status = 404
    /\ method = "GET" /\ proxyPath = <<"_msearch">>
    /\ responseCounts = <<>> /\ objects = <<>>

\* the object registered for name, 0 when there is none
Registered(name) ==
    LET p == name[2]
    IN  IF name[1] = "count"
        THEN IF p \in DOMAIN responseCounts /\ name[3] \in DOMAIN responseCounts[p]
             THEN responseCounts[p][name[3]] ELSE 0
        ELSE IF name[1] = "latency"
        THEN IF p \in DOMAIN latencyHistograms THEN latencyHistograms[p] ELSE 0
        ELSE IF p \in DOMAIN sizeMeters THEN sizeMeters[p] ELSE 0
\* the requests whose call of the method has made its increment or observation
Made(call) ==
    { i \in Procs :
        LET q == procs[i]
        IN  \/ call = "count" /\ q.call \in {"latency", "size"}
            \/ call = "count" /\ q.call = "done" /\ q.code # 404
            \/ call = "latency" /\ q.call = "size"
            \/ call = "latency" /\ q.call = "done" /\ q.code # 404
            \/ call = "size" /\ q.call = "done" /\ q.code < 300 }
RECURSIVE SumOf(_, _)
SumOf(kind, k) ==
    IF k = 0 THEN 0
    ELSE SumOf(kind, k - 1) + IF objects[k].name[1] = kind THEN objects[k].n ELSE 0

\* C16 — lazy creation is race-free: with requests recording concurrently, no
\* two objects are ever created under one name, every object created stays the
\* one registered in its map under its name, the counters add up to the
\* PathStatusCount calls that made their increment (and likewise the
\* histograms and meters), the mutex is held exactly between Lock and Unlock
\* and never during an increment, and no request is blocked for good: the
\* holder of the mutex can always step, and a free mutex can be taken by any
\* request waiting for it.
C16_RaceFree ==
    /\ \A a, b \in 1..Len(objects) :
        objects[a].name = objects[b].name => a = b
    /\ \A a \in 1..Len(objects) : Registered(objects[a].name) = a
    /\ \A call \in {"count", "latency", "size"} :
        SumOf(call, Len(objects)) = Cardinality(Made(call))
    /\ \A i \in Procs :
        /\ mutex = i <=> procs[i].step \in {"lookup", "create", "unlock"}
        /\ procs[i].step = "observe" =>
              /\ mutex # i
              /\ objects[procs[i].c].name = MetricKey(procs[i])
        /\ mutex = i => ENABLED (Lookup(i) \/ Create(i) \/ Unlock(i))
        /\ (mutex = 0 /\ procs[i].step = "lock") => ENABLED Lock(i)
        /\ procs[i].step # "done" => ENABLED NextStats

\* two requests for the same path and status have both finished: one counter,
\* incremented twice
C16_Witness ==
    /\ \A i \in Procs : procs[i].step = "done" /\ procs[i].code = 200
    /\ procs[1].path = procs[2].path
    /\ Len(objects) = 3
    /\ objects[Registered(<<"count", procs[1].path, 200>>)].n >= 2

\* the request is over: Tracer returned, or a panic unwound the chain
RequestOver == pc \in {"done", "panicked"}

\* C18 — every span is finished: the span a request started is finished once,
\* after the inner chain ended, whatever the chain did (an answer of any
\* status, or a panic); no request that is over leaves its span started.
C18_SpanFinished ==
    /\ span = "finished" => (pc = "done" /\ Count("trace") = 1)
    /\ RequestOver => span = "finished"

\* Tracer has set the span's tags after macCtx.Next()
TracerDone == pc = "done"

\* C19 — span annotation: the span carries the final status s as its
\* status-code tag, a size tag exactly when 200 <= s < 300, an error log field
\* exactly when s >= 400, holding the complete body written for the error
\* response however many Write calls carried it, and the error mark exactly
\* when s >= 500; nothing is captured while the status is below 400, and every
\* write is forwarded.
C19_SpanAnnotation ==
    /\ status < 400 => errBody = <<>>
    /\ (Handled /\ route = "metrics") => Flatten(writes) = <<respBody>>
    /\ TracerDone =>
        /\ spanTags.code = status
        /\ (spanTags.size # -1) <=> (status >= 200 /\ status < 300)
        /\ spanTags.logged <=> (status >= 400)
        /\ spanTags.logged => spanTags.log = Flatten(writes)
        /\ spanTags.error <=> (status >= 500)

====
